---- MODULE Spec2Model ----
(***************************************************************************)
(* A model of FileDB (src/db.go): an in-memory map guarded by the mutex    *)
(* mu, a closed flag guarded by the RWMutex cmu, and a backing file that   *)
(* NewFileDB parses and Close rewrites.  Strings are sequences of          *)
(* one-character strings.  Every caller runs one call at a time; a call is *)
(* a sequence of steps, one per synchronisation point of the code.         *)
(***************************************************************************)
EXTENDS Integers, Sequences, FiniteSets, TLC

VARIABLES
    file,          \* content of the backing file on disk
    fopen,         \* the store's os.File handle is open
    live,          \* NewFileDB returned a store (FALSE: it returned an error)
    newErr,        \* the error the last NewFileDB returned
    sid,           \* which store instance this is (one per successful NewFileDB)
    data,          \* db.data
    closed,        \* db.closed
    mu,            \* holder of db.mu, 0 when free
    cmu,           \* db.cmu: w = the writer (0 when none), r = the readers
    pc,            \* per caller: where its call stands
    call,          \* per caller: the call it runs or ran last
    ret,           \* per caller: what that call returned
    visited,       \* per caller in Close: keys its range loop is done with
    closeReturned, \* some Close call on this store has returned
    ncalls,        \* calls invoked so far
    fatal,         \* the Go runtime ended the process (detected map race)
    alone          \* the store's first Close ran with no other call in flight

vars == <<file, fopen, live, newErr, sid, data, closed, mu, cmu, pc, call,
          ret, visited, closeReturned, ncalls, fatal, alone>>

----------------------------------------------------------------------------
\* Bounds of the model.

NumProcs == 2
MaxCalls == 2
MaxTextLen == 5

Procs == 1..NumProcs

----------------------------------------------------------------------------
\* Errors (src/db.go var block) and the regular expressions.

ErrDuplicatedKey == "ErrDuplicatedKey"
ErrWrongFormat   == "ErrWrongFormat"
ErrKeyNotFound   == "ErrKeyNotFound"
ErrOpeningFile   == "ErrOpeningFile"
ErrSavingToFile  == "ErrSavingToFile"
ErrClosedDB      == "ErrClosedDB"
\* os.ErrClosed, what (*os.File).Close returns on a handle already closed
ErrFileClosed    == "os.ErrClosed"
Nil              == "nil"

keyValueSep == ":"
NL == "\n"
CR == "\r"

\* the character class [a-zA-Z0-9_-]
KeyChars ==
    {"a","b","c","d","e","f","g","h","i","j","k","l","m",
     "n","o","p","q","r","s","t","u","v","w","x","y","z",
     "A","B","C","D","E","F","G","H","I","J","K","L","M",
     "N","O","P","Q","R","S","T","U","V","W","X","Y","Z",
     "0","1","2","3","4","5","6","7","8","9","_","-"}

\* a keyFormat that lets every key through
keyFormat_Any(s) == TRUE

\* keyFormat = ^[a-zA-Z0-9_-]*$
keyFormat(s) == \A i \in 1..Len(s) : s[i] \in KeyChars

\* strings.Index(s, c), counted from 1; 0 when c does not occur
RECURSIVE IndexFrom(_, _, _)
IndexFrom(s, c, i) ==
    IF i > Len(s) THEN 0
    ELSE IF s[i] = c THEN i
    ELSE IndexFrom(s, c, i + 1)

Index(s, c) == IndexFrom(s, c, 1)

\* a lineFormat that takes any characters before the first ':'
lineFormat_AnyPrefix(s) ==
    LET i == Index(s, keyValueSep) IN
    /\ i > 0
    /\ \A j \in (i + 1)..Len(s) : s[j] # NL

\* lineFormat = ^[a-zA-Z0-9_-]*:.*$  ('.' matches every character but \n,
\* '$' only the end of the text)
lineFormat(s) ==
    LET i == Index(s, keyValueSep) IN
    /\ i > 0
    /\ \A j \in 1..(i - 1) : s[j] \in KeyChars
    /\ \A j \in (i + 1)..Len(s) : s[j] # NL

----------------------------------------------------------------------------
\* bufio.Scanner with the default split function, bufio.ScanLines.

\* bufio.dropCR
dropCR(s) ==
    IF Len(s) > 0 /\ s[Len(s)] = CR THEN SubSeq(s, 1, Len(s) - 1) ELSE s

\* the tokens s.Scan() yields for the text t
RECURSIVE ScanLines(_)
ScanLines(t) ==
    LET i == Index(t, NL) IN
    IF t = <<>> THEN <<>>
    ELSE IF i = 0 THEN <<dropCR(t)>>
    ELSE <<dropCR(SubSeq(t, 1, i - 1))>> \o ScanLines(SubSeq(t, i + 1, Len(t)))

\* strings.TrimSuffix(s, "\n")
TrimSuffixNL(s) ==
    IF Len(s) > 0 /\ s[Len(s)] = NL THEN SubSeq(s, 1, Len(s) - 1) ELSE s

EmptyMap == [k \in {} |-> <<>>]

\* d[key] = v
MapPut(d, key, v) == [k \in DOMAIN d \cup {key} |-> IF k = key THEN v ELSE d[k]]

\* delete(d, key)
MapDelete(d, key) == [k \in DOMAIN d \ {key} |-> d[k]]

\* a parseData that returns, with the error, the entries read so far
RECURSIVE parseLines_Partial(_, _)
parseLines_Partial(lines, d) ==
    IF lines = <<>> THEN [data |-> d, err |-> Nil]
    ELSE LET line == TrimSuffixNL(Head(lines))
             i    == Index(line, keyValueSep)
         IN  IF ~lineFormat(line)
             THEN [data |-> d, err |-> ErrWrongFormat]
             ELSE parseLines_Partial(Tail(lines),
                                     MapPut(d, SubSeq(line, 1, i - 1),
                                               SubSeq(line, i + 1, Len(line))))

\* the loop of parseData over the scanned lines, d the map built so far
RECURSIVE parseLines(_, _)
parseLines(lines, d) ==
    IF lines = <<>> THEN [data |-> d, err |-> Nil]
    ELSE LET line == TrimSuffixNL(Head(lines))
             i    == Index(line, keyValueSep)
         IN  IF ~lineFormat(line)
             THEN [data |-> EmptyMap, err |-> ErrWrongFormat]
             ELSE parseLines(Tail(lines),
                             MapPut(d, SubSeq(line, 1, i - 1),
                                       SubSeq(line, i + 1, Len(line))))

parseData(text) == parseLines(ScanLines(text), EmptyMap)

\* the bytes Close writes for one entry
entryLine(k, v) == k \o <<keyValueSep>> \o v \o <<NL>>

----------------------------------------------------------------------------
\* The inputs the callers draw their arguments from.

\* keys: the empty key, a well-formed key, a key that fails keyFormat
KeyArgs == {<<>>, <<"a">>, <<"$">>}

\* values: one holding the separator, one ending in a carriage return, one
\* holding a newline
ValArgs == {<<keyValueSep>>, <<CR>>, <<NL>>}

\* the file NewFileDB finds when the program starts: empty, one entry,
\* one malformed line
InitFiles == {<<>>, <<"a", ":", "v", NL>>, <<"$", ":", "v", NL>>}

\* the characters of the file contents the codec is checked on
TextChars == {"a", "$", keyValueSep, NL, CR}

\* every file content of at most MaxTextLen characters
Texts == UNION {[1..n -> TextChars] : n \in 0..MaxTextLen}

\* newErr before NewFileDB was ever called
NotCalled == "not called"

NoCall == [op |-> "none", key |-> <<>>, val |-> <<>>, afterClose |-> FALSE]
NoRet  == [err |-> "pending", val |-> <<>>]

----------------------------------------------------------------------------
\* NewFileDB: the store it returns for the file content text.  openOk is
\* whether os.OpenFile and ioutil.ReadAll succeed.
NewFileDBResult(text, openOk) ==
    LET parsed == parseData(text) IN
    IF ~openOk THEN [live |-> FALSE, err |-> ErrOpeningFile, data |-> EmptyMap]
    ELSE IF parsed.err # Nil
         THEN [live |-> FALSE, err |-> parsed.err, data |-> EmptyMap]
         ELSE [live |-> TRUE, err |-> Nil, data |-> parsed.data]

Init ==
    /\ file \in InitFiles
    /\ LET r == NewFileDBResult(file, TRUE) IN
       /\ live = r.live
       /\ newErr = r.err
       /\ data = r.data
       /\ fopen = r.live
    /\ sid = 1
    /\ closed = FALSE
    /\ mu = 0
    /\ cmu = [w |-> 0, r |-> {}]
    /\ pc = [p \in Procs |-> "idle"]
    /\ call = [p \in Procs |-> NoCall]
    /\ ret = [p \in Procs |-> NoRet]
    /\ visited = [p \in Procs |-> {}]
    /\ closeReturned = FALSE
    /\ ncalls = 0
    /\ fatal = FALSE
    /\ alone = FALSE

\* The program drops a closed store (or retries after a failed NewFileDB)
\* and calls NewFileDB on the same file.
NewFileDB(openOk) ==
    /\ ~fatal
    /\ \A p \in Procs : pc[p] = "idle"
    /\ ~live \/ closeReturned
    /\ LET r == NewFileDBResult(file, openOk) IN
       /\ live' = r.live
       /\ newErr' = r.err
       /\ data' = r.data
       /\ fopen' = r.live
       /\ sid' = IF r.live THEN sid + 1 ELSE sid
    /\ closed' = FALSE
    /\ mu' = 0
    /\ cmu' = [w |-> 0, r |-> {}]
    /\ call' = [p \in Procs |-> NoCall]
    /\ ret' = [p \in Procs |-> NoRet]
    /\ visited' = [p \in Procs |-> {}]
    /\ closeReturned' = FALSE
    /\ alone' = FALSE
    /\ UNCHANGED <<file, pc, ncalls, fatal>>

----------------------------------------------------------------------------
\* some Close call has not returned yet
CloseInFlight == \E q \in Procs : pc[q] # "idle" /\ call[q].op = "Close"

\* some Close call was invoked on this store
CloseCalled == closed \/ closeReturned \/ CloseInFlight

\* A caller starts a call on the store; every call starts with isClosed,
\* whose first step is db.cmu.RLock().  Callers are interchangeable: they
\* are numbered in the order of their first call on the store.
Invoke(p, op, k, v) ==
    /\ ~fatal
    /\ live
    /\ pc[p] = "idle"
    /\ \A q \in 1..(p - 1) : call[q].op # "none"
    /\ ncalls < MaxCalls
    /\ cmu.w = 0
    /\ ncalls' = ncalls + 1
    /\ call' = [call EXCEPT ![p] = [op |-> op, key |-> k, val |-> v,
                                    afterClose |-> closeReturned]]
    /\ ret' = [ret EXCEPT ![p] = NoRet]
    /\ cmu' = [cmu EXCEPT !.r = @ \cup {p}]
    /\ pc' = [pc EXCEPT ![p] = "chk"]
    /\ alone' = IF op = "Close" /\ ~CloseCalled
                THEN \A q \in Procs \ {p} : pc[q] = "idle"
                ELSE alone /\ ~CloseInFlight
    /\ UNCHANGED <<file, fopen, live, newErr, sid, data, closed, mu,
                   visited, closeReturned, fatal>>

\* the call of p returns (err, val)
Return(p, err, val) ==
    /\ pc' = [pc EXCEPT ![p] = "idle"]
    /\ ret' = [ret EXCEPT ![p] = [err |-> err, val |-> val]]
    /\ closeReturned' = (closeReturned \/ call[p].op = "Close")

\* the call of p goes on at label l
Goto(p, l) ==
    /\ pc' = [pc EXCEPT ![p] = l]
    /\ UNCHANGED <<ret, closeReturned>>

\* an isClosed that never reports the store closed
isClosed_Never(c) == Nil

\* isClosed under db.cmu.RLock: the error it returns when db.closed is c
isClosed(c) == IF c THEN ErrClosedDB ELSE Nil

\* isClosed: the read of db.closed and the deferred RUnlock; then the
\* caller's `if err != nil { return err }` and, in Create, the check
\* `if !keyFormat.MatchString(key) { return ErrWrongFormat }`, which
\* touches nothing shared.
IsClosedCheck(p) ==
    /\ ~fatal
    /\ pc[p] = "chk"
    /\ cmu' = [cmu EXCEPT !.r = @ \ {p}]
    /\ IF isClosed(closed) # Nil
       THEN Return(p, isClosed(closed), <<>>)
       ELSE IF call[p].op = "Close"
       THEN Goto(p, "clock")
       ELSE IF call[p].op = "Create" /\ ~keyFormat(call[p].key)
       THEN Return(p, ErrWrongFormat, <<>>)
       ELSE Goto(p, "lock")
    /\ UNCHANGED <<file, fopen, live, newErr, sid, data, closed, mu, call,
                   visited, ncalls, fatal, alone>>

\* a mutex that excludes nobody
MutexFree_Always(m) == TRUE

\* sync.Mutex: Lock() goes through when nobody holds the mutex
MutexFree(m) == m = 0

\* Create, Read, Update, Delete: db.mu.Lock()
Lock(p) ==
    /\ ~fatal
    /\ pc[p] = "lock"
    /\ MutexFree(mu)
    /\ mu' = p
    /\ Goto(p, "crit")
    /\ UNCHANGED <<file, fopen, live, newErr, sid, data, closed, cmu, call,
                   visited, ncalls, fatal, alone>>

\* the callers whose Close is inside its range loop over db.data
Iterating == {q \in Procs : pc[q] = "iter"}

\* the callers other than p that are reading or writing db.data
Accessing(p) == (Iterating \cup {q \in Procs : pc[q] = "crit"}) \ {p}

\* a Create that overwrites a present key
CreateOn_Overwrite(d, key, val) ==
    [err |-> Nil, val |-> <<>>, data |-> MapPut(d, key, val), wrote |-> TRUE]

\* a Create that reports success and stores nothing
CreateOn_NoInsert(d, key, val) ==
    IF key \in DOMAIN d
    THEN [err |-> ErrDuplicatedKey, val |-> <<>>, data |-> d, wrote |-> FALSE]
    ELSE [err |-> Nil, val |-> <<>>, data |-> d, wrote |-> FALSE]

\* an Update that inserts an absent key
UpdateOn_Upsert(d, key, val) ==
    [err |-> Nil, val |-> <<>>, data |-> MapPut(d, key, val), wrote |-> TRUE]

\* an Update that reports success and keeps the old value
UpdateOn_Noop(d, key, val) ==
    IF key \notin DOMAIN d
    THEN [err |-> ErrKeyNotFound, val |-> <<>>, data |-> d, wrote |-> FALSE]
    ELSE [err |-> Nil, val |-> <<>>, data |-> d, wrote |-> FALSE]

\* a Delete that returns the value and keeps the entry
DeleteOn_Keeps(d, key) ==
    IF key \notin DOMAIN d
    THEN [err |-> ErrKeyNotFound, val |-> <<>>, data |-> d, wrote |-> FALSE]
    ELSE [err |-> Nil, val |-> d[key], data |-> d, wrote |-> FALSE]

\* The bodies of Create, Read, Update and Delete on the map d: the error
\* and value returned, the map left behind, and whether the map was written.
CreateOn(d, key, val) ==
    IF key \in DOMAIN d
    THEN [err |-> ErrDuplicatedKey, val |-> <<>>, data |-> d, wrote |-> FALSE]
    ELSE [err |-> Nil, val |-> <<>>, data |-> MapPut(d, key, val), wrote |-> TRUE]

ReadOn(d, key) ==
    IF key \notin DOMAIN d
    THEN [err |-> ErrKeyNotFound, val |-> <<>>, data |-> d, wrote |-> FALSE]
    ELSE [err |-> Nil, val |-> d[key], data |-> d, wrote |-> FALSE]

UpdateOn(d, key, val) ==
    IF key \notin DOMAIN d
    THEN [err |-> ErrKeyNotFound, val |-> <<>>, data |-> d, wrote |-> FALSE]
    ELSE [err |-> Nil, val |-> <<>>, data |-> MapPut(d, key, val), wrote |-> TRUE]

DeleteOn(d, key) ==
    IF key \notin DOMAIN d
    THEN [err |-> ErrKeyNotFound, val |-> <<>>, data |-> d, wrote |-> FALSE]
    ELSE [err |-> Nil, val |-> d[key], data |-> MapDelete(d, key), wrote |-> TRUE]

\* The section of a call between db.mu.Lock() and the deferred Unlock, r
\* what its body does on db.data.  A write of db.data while another caller
\* reads or writes it (a Close ranging over it, which takes no lock) is a
\* data race.  The runtime may detect it and end the process; if it does
\* not, the write lands, and an entry inserted under a running range loop
\* is either still produced by that loop or skipped by it.
Critical(p, r) ==
    /\ ~fatal
    /\ pc[p] = "crit"
    /\ \/ /\ mu' = 0
          /\ Return(p, r.err, r.val)
          /\ data' = r.data
          /\ \E skip \in SUBSET (IF r.wrote /\ call[p].key \notin DOMAIN data
                                 THEN Iterating ELSE {}) :
                 visited' = [q \in Procs |->
                               IF q \in skip THEN visited[q] \cup {call[p].key}
                               ELSE visited[q]]
          /\ fatal' = FALSE
       \/ /\ r.wrote
          /\ Accessing(p) # {}
          /\ fatal' = TRUE
          /\ UNCHANGED <<mu, pc, ret, closeReturned, data, visited>>
    /\ UNCHANGED <<file, fopen, live, newErr, sid, closed, cmu, call, ncalls,
                   alone>>

Create(p) ==
    /\ call[p].op = "Create"
    /\ Critical(p, CreateOn(data, call[p].key, call[p].val))

Read(p) ==
    /\ call[p].op = "Read"
    /\ Critical(p, ReadOn(data, call[p].key))

Update(p) ==
    /\ call[p].op = "Update"
    /\ Critical(p, UpdateOn(data, call[p].key, call[p].val))

Delete(p) ==
    /\ call[p].op = "Delete"
    /\ Critical(p, DeleteOn(data, call[p].key))

----------------------------------------------------------------------------
\* Close, after its isClosed check.

\* db.cmu.Lock()
CloseLock(p) ==
    /\ ~fatal
    /\ pc[p] = "clock"
    /\ cmu.w = 0
    /\ cmu.r = {}
    /\ cmu' = [cmu EXCEPT !.w = p]
    /\ Goto(p, "cset")
    /\ UNCHANGED <<file, fopen, live, newErr, sid, data, closed, mu, call,
                   visited, ncalls, fatal, alone>>

\* db.closed = true; db.cmu.Unlock()
CloseSet(p) ==
    /\ ~fatal
    /\ pc[p] = "cset"
    /\ closed' = TRUE
    /\ cmu' = [cmu EXCEPT !.w = 0]
    /\ Goto(p, "trunc")
    /\ UNCHANGED <<file, fopen, live, newErr, sid, data, mu, call,
                   visited, ncalls, fatal, alone>>

\* db.file.Truncate(0); db.file.Seek(0, 0): both errors are dropped, so on
\* a handle already closed nothing happens.  The handle was opened with
\* O_APPEND, so the offset Seek sets has no effect on where Write writes.
\* Then the range loop starts with nothing visited.
CloseTruncate(p) ==
    /\ ~fatal
    /\ pc[p] = "trunc"
    /\ file' = IF fopen THEN <<>> ELSE file
    /\ visited' = [visited EXCEPT ![p] = {}]
    /\ Goto(p, "iter")
    /\ UNCHANGED <<fopen, live, newErr, sid, data, closed, mu, cmu, call,
                   ncalls, fatal, alone>>

\* one turn of `for k, v := range db.data`: the entry of some key not yet
\* produced is written; writeOk is whether the operating system's write
\* succeeds.  Write on a closed handle fails.  A failed write returns
\* ErrSavingToFile and leaves the handle open.
CloseWrite(p, k, writeOk) ==
    /\ ~fatal
    /\ pc[p] = "iter"
    /\ k \in DOMAIN data \ visited[p]
    /\ IF fopen /\ writeOk
       THEN /\ file' = file \o entryLine(k, data[k])
            /\ visited' = [visited EXCEPT ![p] = @ \cup {k}]
            /\ UNCHANGED <<pc, ret, closeReturned>>
       ELSE /\ Return(p, ErrSavingToFile, <<>>)
            /\ visited' = [visited EXCEPT ![p] = {}]
            /\ UNCHANGED file
    /\ UNCHANGED <<fopen, live, newErr, sid, data, closed, mu, cmu, call,
                   ncalls, fatal, alone>>

\* the range loop ends and Close returns db.file.Close()
CloseFile(p) ==
    /\ ~fatal
    /\ pc[p] = "iter"
    /\ DOMAIN data \ visited[p] = {}
    /\ fopen' = FALSE
    /\ Return(p, IF fopen THEN Nil ELSE ErrFileClosed, <<>>)
    /\ visited' = [visited EXCEPT ![p] = {}]
    /\ UNCHANGED <<file, live, newErr, sid, data, closed, mu, cmu, call,
                   ncalls, fatal, alone>>

----------------------------------------------------------------------------
Next ==
    \/ \E openOk \in BOOLEAN : NewFileDB(openOk)
    \/ \E p \in Procs, k \in KeyArgs, v \in ValArgs :
           \/ Invoke(p, "Create", k, v)
           \/ Invoke(p, "Update", k, v)
    \/ \E p \in Procs, k \in KeyArgs :
           \/ Invoke(p, "Read", k, <<>>)
           \/ Invoke(p, "Delete", k, <<>>)
    \/ \E p \in Procs : Invoke(p, "Close", <<>>, <<>>)
    \/ \E p \in Procs : IsClosedCheck(p)
    \/ \E p \in Procs : Lock(p)
    \/ \E p \in Procs : Create(p)
    \/ \E p \in Procs : Read(p)
    \/ \E p \in Procs : Update(p)
    \/ \E p \in Procs : Delete(p)
    \/ \E p \in Procs : CloseLock(p)
    \/ \E p \in Procs : CloseSet(p)
    \/ \E p \in Procs : CloseTruncate(p)
    \/ \E p \in Procs, k \in KeyArgs, writeOk \in BOOLEAN : CloseWrite(p, k, writeOk)
    \/ \E p \in Procs : CloseFile(p)

Spec == Init /\ [][Next]_vars

----------------------------------------------------------------------------
\* Fair scheduling: a caller whose call has a step it can take keeps
\* being scheduled, and a lock that stays free is taken by a caller that
\* waits for it.

\* the steps of p's call after its start
Step(p) ==
    \/ IsClosedCheck(p)
    \/ Lock(p)
    \/ Create(p)
    \/ Read(p)
    \/ Update(p)
    \/ Delete(p)
    \/ CloseLock(p)
    \/ CloseSet(p)
    \/ CloseTruncate(p)
    \/ \E k \in KeyArgs, writeOk \in BOOLEAN : CloseWrite(p, k, writeOk)
    \/ CloseFile(p)

FairSpec == Spec /\ \A p \in Procs : WF_vars(Step(p))

----------------------------------------------------------------------------
\* The codec on its own: the program starts on a file of any content and
\* calls NewFileDB, which reads and parses it.

CodecInit ==
    /\ file \in Texts
    /\ live = FALSE
    /\ newErr = NotCalled
    /\ data = EmptyMap
    /\ fopen = FALSE
    /\ sid = 1
    /\ closed = FALSE
    /\ mu = 0
    /\ cmu = [w |-> 0, r |-> {}]
    /\ pc = [p \in Procs |-> "idle"]
    /\ call = [p \in Procs |-> NoCall]
    /\ ret = [p \in Procs |-> NoRet]
    /\ visited = [p \in Procs |-> {}]
    /\ closeReturned = FALSE
    /\ ncalls = 0
    /\ fatal = FALSE
    /\ alone = FALSE

CodecNext == \E openOk \in BOOLEAN : NewFileDB(openOk)

CodecSpec == CodecInit /\ [][CodecNext]_vars

----------------------------------------------------------------------------
\* Vocabulary of the properties.

\* the call of p has returned
Done(p) == pc[p] = "idle" /\ call[p].op # "none"

\* the step stays within one store (it is not a NewFileDB)
SameStore == live /\ live' /\ sid' = sid

\* the step is the one that ends p's section under db.mu
LeavesCritical(p, op) ==
    SameStore /\ pc[p] = "crit" /\ pc'[p] # "crit" /\ call[p].op = op

\* the characters of the string s
Chars(s) == {s[i] : i \in 1..Len(s)}

\* the key matches [A-Za-z0-9_-]*, as the claims read it
WellFormed(key) == Chars(key) \subseteq KeyChars

\* d2 is d1 but for the entry of key
SameButFor(d1, d2, key) ==
    /\ DOMAIN d2 \ {key} = DOMAIN d1 \ {key}
    /\ \A k \in DOMAIN d1 \ {key} : d2[k] = d1[k]

----------------------------------------------------------------------------
\* the state part of C1: what holds of a call started after Close returned
C1_State ==
    /\ closeReturned => closed
    /\ \A p \in Procs :
          call[p].afterClose =>
              /\ pc[p] \in {"idle", "chk"}
              /\ pc[p] = "idle" => ret[p] = [err |-> ErrClosedDB, val |-> <<>>]

\* the step part of C1
C1_Step ==
    SameStore =>
        /\ closed => closed'
        /\ \A p \in Procs :
              call'[p].afterClose /\ pc'[p] # pc[p] => data' = data

\* C1: once a Close call has returned, every call started afterwards on the
\* same store fails with ErrClosedDB, never gets past its isClosed check and
\* leaves db.data unchanged; db.closed never goes back to false.
C1_AfterClose == []C1_State /\ [][C1_Step]_vars

\* an Update of a present key, started after Close returned, has failed
C1_Witness ==
    \E p \in Procs :
        /\ Done(p) /\ call[p].afterClose
        /\ call[p].op = "Update" /\ call[p].key \in DOMAIN data
        /\ ret[p].err = ErrClosedDB

----------------------------------------------------------------------------
\* a Create whose key has a character outside [A-Za-z0-9_-]
InvalidCreate(c) == c.op = "Create" /\ ~WellFormed(c.key)

\* no step of such a Create changes db.data
C2_Frame ==
    \A p \in Procs :
        SameStore /\ InvalidCreate(call'[p]) /\ pc'[p] # pc[p] => data' = data

\* C2 as claimed: a Create whose key has a character outside [A-Za-z0-9_-]
\* fails with ErrWrongFormat whatever the state of the store (open or
\* closed), and never changes db.data.
C2_Original ==
    /\ [](\A p \in Procs :
             Done(p) /\ InvalidCreate(call[p]) => ret[p].err = ErrWrongFormat)
    /\ [][C2_Frame]_vars

\* the state part of C2 as amended
C2_State ==
    \A p \in Procs :
        Done(p) /\ InvalidCreate(call[p]) =>
            /\ ret[p].err \in {ErrWrongFormat, ErrClosedDB}
            /\ ~closed => ret[p].err = ErrWrongFormat
            /\ call[p].afterClose => ret[p].err = ErrClosedDB

\* C2 as amended: a Create whose key has a character outside [A-Za-z0-9_-]
\* fails with ErrWrongFormat as long as the store is not closed, with ErrClosedDB
\* when it starts after a Close has returned (the closed check comes first),
\* fails with one of the two in every case, and never changes db.data.
C2_InvalidKey == []C2_State /\ [][C2_Frame]_vars

\* on an open store holding an entry, such a Create has failed with
\* ErrWrongFormat
C2_Witness ==
    \E p \in Procs :
        /\ Done(p) /\ InvalidCreate(call[p])
        /\ ~closed /\ DOMAIN data # {}
        /\ ret[p].err = ErrWrongFormat

----------------------------------------------------------------------------
\* the step of C3: the end of Create's section under db.mu
C3_Step ==
    \A p \in Procs :
        LeavesCritical(p, "Create") /\ ~closed /\ call[p].key \in DOMAIN data =>
            /\ ret'[p].err = ErrDuplicatedKey
            /\ data' = data

\* C3: on an open store, Create of a key already present fails with
\* ErrDuplicatedKey and leaves the whole of db.data as it was.
C3_Duplicate == [][C3_Step]_vars

\* a Create of a present key with another value has failed, the old value
\* is still there
C3_Witness ==
    \E p \in Procs :
        /\ Done(p) /\ call[p].op = "Create" /\ ~closed
        /\ ret[p].err = ErrDuplicatedKey
        /\ call[p].key \in DOMAIN data
        /\ data[call[p].key] # call[p].val

----------------------------------------------------------------------------
\* the steps of C4: the key check and the end of the section under db.mu
C4_Step ==
    \A p \in Procs :
        SameStore /\ ~closed /\ call[p].op = "Create" /\ WellFormed(call[p].key) =>
            /\ pc[p] = "chk" /\ pc'[p] # "chk" => pc'[p] = "lock"
            /\ pc[p] = "crit" /\ pc'[p] # "crit" /\ call[p].key \notin DOMAIN data =>
                  /\ ret'[p].err = Nil
                  /\ ReadOn(data', call[p].key).err = Nil
                  /\ ReadOn(data', call[p].key).val = call[p].val
                  /\ call[p].key \in DOMAIN data'
                  /\ SameButFor(data, data', call[p].key)

----------------------------------------------------------------------------
\* the step of C5: the end of the section under db.mu
C5_Step ==
    \A p \in Procs, op \in {"Read", "Update", "Delete"} :
        LeavesCritical(p, op) /\ ~closed /\ call[p].key \notin DOMAIN data =>
            /\ ret'[p] = [err |-> ErrKeyNotFound, val |-> <<>>]
            /\ data' = data

\* C5: on an open store, Read, Update and Delete of an absent key fail
\* with ErrKeyNotFound and leave db.data as it was.
C5_NotFound == [][C5_Step]_vars

\* an Update and a Delete of absent keys have both failed
C5_Witness ==
    \E p, q \in Procs :
        /\ Done(p) /\ Done(q) /\ ~closed
        /\ call[p].op = "Update" /\ call[q].op = "Delete"
        /\ call[p].key \notin DOMAIN data /\ call[q].key \notin DOMAIN data
        /\ ret[p].err = ErrKeyNotFound /\ ret[q].err = ErrKeyNotFound

----------------------------------------------------------------------------
\* the steps of C6: the end of Update's section, and any step of a Read
C6_Step ==
    \A p \in Procs :
        /\ LeavesCritical(p, "Update") /\ ~closed /\ call[p].key \in DOMAIN data =>
              /\ ret'[p].err = Nil
              /\ ReadOn(data', call[p].key).err = Nil
              /\ ReadOn(data', call[p].key).val = call[p].val
              /\ DOMAIN data' = DOMAIN data
              /\ SameButFor(data, data', call[p].key)
        /\ SameStore /\ call'[p].op = "Read" /\ pc'[p] # pc[p] => data' = data

----------------------------------------------------------------------------
\* the step of C7: the end of Delete's section under db.mu
C7_Step ==
    \A p \in Procs :
        LeavesCritical(p, "Delete") /\ ~closed /\ call[p].key \in DOMAIN data =>
            /\ ret'[p] = [err |-> Nil, val |-> data[call[p].key]]
            /\ call[p].key \notin DOMAIN data'
            /\ SameButFor(data, data', call[p].key)
            /\ ReadOn(data', call[p].key).err = ErrKeyNotFound
            /\ isClosed(closed') = Nil
            /\ keyFormat(call[p].key)
            /\ \A v \in ValArgs :
                   /\ CreateOn(data', call[p].key, v).err = Nil
                   /\ CreateOn(data', call[p].key, v).data[call[p].key] = v

\* C7: on an open store, Delete of a present key returns the value stored
\* under it and removes that entry and no other; a Read of the key then
\* fails with ErrKeyNotFound and a Create of the key then succeeds.
C7_Delete == [][C7_Step]_vars

\* a Delete has returned the stored value and a Create of the same key has
\* succeeded after it
C7_Witness ==
    \E p, q \in Procs :
        /\ Done(p) /\ Done(q) /\ ~closed
        /\ call[p].op = "Delete" /\ ret[p] = [err |-> Nil, val |-> <<"v">>]
        /\ call[q].op = "Create" /\ call[q].key = call[p].key
        /\ ret[q].err = Nil
        /\ call[q].key \in DOMAIN data /\ data[call[q].key] = call[q].val

----------------------------------------------------------------------------
\* A Close that had the store to itself has returned nil and nothing runs:
\* the file holds what that Close wrote and db.data is what it ranged over.
QuietClose ==
    /\ live /\ ~fatal /\ alone
    /\ \A p \in Procs : pc[p] = "idle"
    /\ \E p \in Procs : call[p].op = "Close" /\ ret[p].err = Nil

\* C8 as claimed: for a map of well-formed keys and values without a
\* newline, parseData of what Close wrote succeeds and gives that map back.
C8_RoundTrip ==
    /\ QuietClose
    /\ \A k \in DOMAIN data : WellFormed(k) /\ NL \notin Chars(data[k])
    => parseData(file) = [data |-> data, err |-> Nil]

\* C9 as claimed: after Create, Update and Delete calls with any values and
\* a Close without a failed write, NewFileDB on the file succeeds and gives
\* a store holding the map the closed store held.
C9_Persistence ==
    QuietClose =>
        NewFileDBResult(file, TRUE) = [live |-> TRUE, err |-> Nil, data |-> data]

----------------------------------------------------------------------------
\* the callers whose call is a Create
Creators == {p \in Procs : call[p].op = "Create"}

\* no Close was called, so the file is still the one NewFileDB parsed
InitialData == parseData(file).data

\* every call so far on the open store is a Create of a well-formed key the
\* store did not hold, and no two of them have the same key
OnlyDistinctCreates ==
    /\ live /\ ~CloseCalled
    /\ ncalls = Cardinality({p \in Procs : call[p].op # "none"})
    /\ \A p \in Procs : call[p].op \in {"none", "Create"}
    /\ \A p \in Creators :
          /\ WellFormed(call[p].key)
          /\ call[p].key \notin DOMAIN InitialData
          /\ \A q \in Creators \ {p} : call[q].key # call[p].key

\* C10: as long as the only calls on an open store are Create calls of
\* pairwise distinct well-formed keys the store did not hold, by any callers
\* in any interleaving, no data race ends the process, every call that has
\* returned has succeeded and its key reads back its value, and the entries
\* the store started with are still there.
C10_ConcurrentCreate ==
    OnlyDistinctCreates =>
        /\ ~fatal
        /\ \A p \in Creators :
              Done(p) =>
                  /\ ret[p].err = Nil
                  /\ ReadOn(data, call[p].key).err = Nil
                  /\ ReadOn(data, call[p].key).val = call[p].val
        /\ \A k \in DOMAIN InitialData :
              k \in DOMAIN data /\ data[k] = InitialData[k]

\* two callers have created two keys, both calls have returned
C10_Witness ==
    /\ OnlyDistinctCreates
    /\ Cardinality(Creators) = 2
    /\ \A p \in Creators : Done(p) /\ ret[p].err = Nil
    /\ Cardinality(DOMAIN data) = 2

----------------------------------------------------------------------------
\* the step in which p's call reads or writes db.data under db.mu (the
\* step that ends its section, or the one in which the race is detected)
AccessesData(p) ==
    SameStore /\ pc[p] = "crit" /\ (pc'[p] # "crit" \/ (fatal' /\ ~fatal))

\* C11 as claimed: whatever the interleaving of Create, Read, Update and
\* Delete calls with a Close call, none of them reads or writes db.data
\* in a state where db.closed is already true.
C11_NoAccessWhenClosed ==
    [][\A p \in Procs : AccessesData(p) => ~closed]_vars

----------------------------------------------------------------------------
\* the callers inside the section of a Create, Update or Delete under db.mu
Mutating ==
    {p \in Procs : pc[p] = "crit" /\ call[p].op \in {"Create", "Update", "Delete"}}

\* C12 as claimed: the range loop of Close over db.data never overlaps the
\* section of a Create, Update or Delete under db.mu.
C12_NoOverlap == Iterating # {} => Mutating = {}

----------------------------------------------------------------------------
\* the callers whose Close call went past its isClosed check: they
\* truncate, write and close the file
Flushers ==
    {p \in Procs :
        /\ call[p].op = "Close"
        /\ \/ pc[p] \in {"clock", "cset", "trunc", "iter"}
           \/ Done(p) /\ ret[p].err # ErrClosedDB}

\* C13 as claimed: of all the Close calls on one store, sequential or
\* concurrent, at most one goes on to truncate, write and close the file;
\* every other one fails with ErrClosedDB, so the handle is closed once and
\* no Close finds it closed already.
C13_SingleFlush ==
    live =>
        /\ Cardinality(Flushers) <= 1
        /\ \A p \in Procs :
              Done(p) /\ call[p].op = "Close" => ret[p].err # ErrFileClosed

----------------------------------------------------------------------------
\* The file format as the claims read it.

\* the text split into lines on newline boundaries
RECURSIVE Lines(_)
Lines(t) ==
    IF t = <<>> THEN <<>>
    ELSE IF \A i \in 1..Len(t) : t[i] # NL THEN <<t>>
    ELSE LET i == CHOOSE j \in 1..Len(t) :
                      t[j] = NL /\ \A h \in 1..(j - 1) : t[h] # NL
         IN  <<SubSeq(t, 1, i - 1)>> \o Lines(SubSeq(t, i + 1, Len(t)))

\* the line is a prefix of [A-Za-z0-9_-]*, then ':', then any characters
MatchesLineFormat(l) ==
    \E i \in 1..Len(l) :
        /\ l[i] = keyValueSep
        /\ \A j \in 1..(i - 1) : l[j] \in KeyChars

\* NewFileDB has run and could open and read the file
Constructed == newErr \notin {NotCalled, ErrOpeningFile}

\* C14 as claimed: parseData, and NewFileDB with it, succeeds exactly when
\* every non-empty line of the file matches the line format; empty lines
\* need not match and make nothing fail, and the empty file gives the
\* empty map.
C14_DecodeAccepts ==
    Constructed =>
        /\ (live /\ newErr = Nil) <=>
              \A i \in DOMAIN Lines(file) :
                  Lines(file)[i] # <<>> => MatchesLineFormat(Lines(file)[i])
        /\ live <=> parseData(file).err = Nil
        /\ file = <<>> => live /\ data = EmptyMap

----------------------------------------------------------------------------
\* some line of the file fails the line format
HasBadLine ==
    \E i \in DOMAIN Lines(file) : ~MatchesLineFormat(Lines(file)[i])

\* C15: when some line of the file fails the line format, wherever it
\* stands among well-formed lines, parseData returns ErrWrongFormat with the
\* empty map, no entry of the lines before it is kept, and NewFileDB
\* returns no store: it fails with ErrWrongFormat (with ErrOpeningFile if
\* the file could not be opened).
C15_BadLine ==
    newErr # NotCalled /\ HasBadLine =>
        /\ parseData(file) = [data |-> EmptyMap, err |-> ErrWrongFormat]
        /\ NewFileDBResult(file, TRUE) =
               [live |-> FALSE, err |-> ErrWrongFormat, data |-> EmptyMap]
        /\ ~live
        /\ data = EmptyMap
        /\ newErr \in {ErrWrongFormat, ErrOpeningFile}

\* NewFileDB failed with ErrWrongFormat on a file whose first line is a
\* well-formed entry of a non-empty key and whose second line is malformed
C15_Witness ==
    /\ newErr = ErrWrongFormat
    /\ Len(Lines(file)) = 2
    /\ MatchesLineFormat(Lines(file)[1])
    /\ Lines(file)[1][1] # keyValueSep
    /\ ~MatchesLineFormat(Lines(file)[2])

----------------------------------------------------------------------------
\* the place of the first ':' of the line l
FirstSep(l) ==
    CHOOSE i \in 1..Len(l) :
        l[i] = keyValueSep /\ \A j \in 1..(i - 1) : l[j] # keyValueSep

\* the map the lines ls give when each is split at its first ':' and a
\* later line of a key replaces an earlier one
RECURSIVE LastWins(_)
LastWins(ls) ==
    IF ls = <<>> THEN EmptyMap
    ELSE LET l == ls[Len(ls)]
             before == LastWins(SubSeq(ls, 1, Len(ls) - 1))
         IN  MapPut(before, SubSeq(l, 1, FirstSep(l) - 1),
                            SubSeq(l, FirstSep(l) + 1, Len(l)))

\* C16 as claimed: when parseData succeeds, every line was split at its
\* first ':', the key the text before it and the value all the text after
\* it, further ':' included, and of several lines with one key the last
\* one gives the value.
C16_SplitLastWins ==
    Constructed /\ live => data = LastWins(Lines(file))

----------------------------------------------------------------------------
\* the callers inside the section of their call under db.mu
InSection == {p \in Procs : pc[p] = "crit"}

\* what the call c returns and leaves behind when it runs on its own on
\* an open store whose map is d
Sequential(c, d) ==
    LET r == CASE c.op = "Create" -> CreateOn(d, c.key, c.val)
               [] c.op = "Read"   -> ReadOn(d, c.key)
               [] c.op = "Update" -> UpdateOn(d, c.key, c.val)
               [] c.op = "Delete" -> DeleteOn(d, c.key)
    IN  IF c.op = "Create" /\ ~WellFormed(c.key)
        THEN [ret |-> [err |-> ErrWrongFormat, val |-> <<>>], data |-> d]
        ELSE [ret |-> [err |-> r.err, val |-> r.val], data |-> r.data]

\* the state part of C17: db.mu has one holder, and no one else is in
\* the section
C17_State ==
    live =>
        /\ Cardinality(InSection) <= 1
        /\ \A p \in InSection : mu = p
        /\ ~CloseCalled => ~fatal

\* the step part of C17: as long as no Close is called, every call takes
\* effect in the one step in which it returns, with the result and the map
\* of a sequential run on the map of that moment, and db.data changes in
\* no other step
C17_Step ==
    SameStore /\ ~CloseCalled =>
        /\ \A p \in Procs :
              pc[p] # "idle" /\ pc'[p] = "idle" =>
                  /\ ret'[p] = Sequential(call[p], data).ret
                  /\ data' = Sequential(call[p], data).data
        /\ data' # data =>
              Cardinality({p \in Procs : pc[p] # "idle" /\ pc'[p] = "idle"}) = 1

\* C17: two Create/Read/Update/Delete calls are never together inside their
\* section under db.mu, and every concurrent execution of such calls gives
\* each call the result, and db.data the content, of running the calls one
\* after another in the order in which they return.
C17_Atomicity == []C17_State /\ [][C17_Step]_vars

\* a Delete holds db.mu inside its section while a Create of the same key
\* waits for db.mu
C17_Witness ==
    \E p, q \in Procs :
        /\ ~CloseCalled
        /\ pc[p] = "crit" /\ mu = p /\ call[p].op = "Delete"
        /\ call[p].key \in DOMAIN data
        /\ pc[q] = "lock" /\ call[q].op = "Create"
        /\ call[q].key = call[p].key

----------------------------------------------------------------------------
\* C18: in every state reached from NewFileDB on a file, through any
\* Create, Read, Update, Delete and Close calls in any interleaving, every
\* key of db.data matches [A-Za-z0-9_-]*: it holds no ':' and no newline.
C18_KeyFormat ==
    \A k \in DOMAIN data :
        /\ WellFormed(k)
        /\ keyValueSep \notin Chars(k)
        /\ NL \notin Chars(k)

\* a Create of a malformed key was refused on a store that holds an entry
\* read from the file and an entry created by a call
C18_Witness ==
    /\ live
    /\ DOMAIN parseData(file).data # {}
    /\ \E p \in Procs :
          /\ Done(p) /\ call[p].op = "Create" /\ ~WellFormed(call[p].key)
          /\ ret[p].err = ErrWrongFormat
    /\ \E k \in DOMAIN data : k \notin DOMAIN parseData(file).data

----------------------------------------------------------------------------
\* the text t holds the bytes e one after another
Holds(t, e) ==
    \E i \in 0..(Len(t) - Len(e)) : SubSeq(t, i + 1, i + Len(e)) = e

\* C19 as claimed: a Close that had the store to itself returns
\* ErrSavingToFile when a write failed and nil only when the entry of every
\* key was written; after a Close that returned ErrSavingToFile the store
\* is closed and the file handle is released.
C19_FailedWrite ==
    \A p \in Procs :
        live /\ alone /\ Done(p) /\ call[p].op = "Close" /\ ~call[p].afterClose =>
            /\ ret[p].err \in {Nil, ErrSavingToFile}
            /\ ret[p].err = Nil =>
                  \A k \in DOMAIN data : Holds(file, entryLine(k, data[k]))
            /\ ret[p].err = ErrSavingToFile => closed /\ ~fopen

----------------------------------------------------------------------------
\* no caller holds db.cmu and db.mu together
LocksDisjoint ==
    \A p \in Procs : ~(mu = p /\ (cmu.w = p \/ p \in cmu.r))

\* the process was ended while the call of some caller had not returned
CutOff == fatal /\ \E p \in Procs : pc[p] # "idle"

\* C20 as claimed: no call holds db.cmu and db.mu together, and under fair
\* scheduling every Create, Read, Update, Delete and Close call, whatever
\* the calls it runs with, returns in the end; so no call is ever cut off
\* by the end of the process.
C20_Returns ==
    /\ []LocksDisjoint
    /\ []~CutOff
    /\ \A p \in Procs : (pc[p] # "idle") ~> (pc[p] = "idle")

====
